---- MODULE Spec2Model ----
(***************************************************************************)
(* riff-dag-tui (src/src/main.rs): the graph store (GraphModel), the JSONL *)
(* loader, the depth-limited neighbourhood layering and the interactive    *)
(* session state machine (App / handle_key).                               *)
(*                                                                         *)
(* Conventions.  A Rust String is a sequence of one-character strings.     *)
(* Option<T> is a sequence of length 0 (None) or 1 (Some).  NodeIndex and  *)
(* list indices are 0-based as in the source; the node with NodeIndex i is *)
(* gm.nodes[i + 1].  StableDiGraph is an arena: with no removal, add_node  *)
(* returns the next index, node_indices enumerates 0..n-1 and the          *)
(* neighbours of a node are yielded newest edge first, once per edge.      *)
(***************************************************************************)
EXTENDS Integers, Sequences, FiniteSets, TLC

VARIABLES
    pc,               \* "load" | "failed" | "run" | "quit" | "dag" | "drawn"
    gm,               \* GraphModel: [nodes, edges, indices]
    lineno,           \* number of lines the loader has taken from the reader
    line,             \* the line the loader handled last
    ret,              \* Option: what the last upsert_node call returned
    seen,             \* history: ids carried by the node events handled so far
    clean,            \* history: the store the good lines alone describe
    order,            \* App.order (visible_order)
    selected,         \* App.list_state.selected(): Option<usize>
    filter_text,      \* App.filter_text
    mode,             \* App.mode
    dag_view_mode,    \* App.dag_view_mode
    key,              \* Option: the key event handle_key handled last
    was,              \* history: filter_text and selection before that key event
    dag               \* the locals of the last layering call

vars == <<pc, gm, lineno, line, ret, seen, clean, order, selected, filter_text,
          mode, dag_view_mode, key, was, dag>>

loadVars == <<gm, lineno, line, ret, seen, clean>>
appVars == <<order, selected, filter_text, mode, dag_view_mode, key, was>>

----
\* Bounds of the model.

\* lines the loader reads in one run
MaxLines == 5
\* edges a store built by the loader holds
MaxEdges == 3
\* characters of filter_text
MaxFilterLen == 2
\* lines of the input a session starts from
MaxAppLines == 4
\* edge lines of the input a layering call starts from
MaxDagEdges == 3
\* depth bound handed to the layering
MaxDepth == 3

----
\* Option<T>

None == <<>>

Some(x) == <<x>>

\* Option::unwrap_or / unwrap_or_default
UnwrapOr(o, d) == IF o = None THEN d ELSE o[1]

Min(a, b) == IF a <= b THEN a ELSE b

----
\* Strings

\* char::to_lowercase on the characters the model types
LowerChar(c) == IF c = "Q" THEN "q" ELSE IF c = "K" THEN "k" ELSE c

\* str::to_lowercase
ToLowercase(s) == [i \in 1..Len(s) |-> LowerChar(s[i])]

IsWhitespace(c) == c = " "

RECURSIVE TrimStart(_)
TrimStart(s) ==
    IF s # <<>> /\ IsWhitespace(Head(s)) THEN TrimStart(Tail(s)) ELSE s

RECURSIVE TrimEnd(_)
TrimEnd(s) ==
    IF s # <<>> /\ IsWhitespace(s[Len(s)])
    THEN TrimEnd(SubSeq(s, 1, Len(s) - 1))
    ELSE s

\* str::trim
Trim(s) == TrimEnd(TrimStart(s))

\* str::contains(&str)
Contains(hay, q) ==
    \E i \in 1..(Len(hay) - Len(q) + 1) : SubSeq(hay, i, i + Len(q) - 1) = q

\* [String]::join(" ")
RECURSIVE JoinSpace(_)
JoinSpace(ss) ==
    IF ss = <<>> THEN <<>>
    ELSE IF Len(ss) = 1 THEN ss[1]
    ELSE ss[1] \o <<" ">> \o JoinSpace(Tail(ss))

\* String::pop: drops the last character, if any
Pop(s) == IF s = <<>> THEN s ELSE SubSeq(s, 1, Len(s) - 1)

----
\* GraphModel (the Store)

\* GraphModel::new
NewGraphModel == [nodes |-> <<>>, edges |-> <<>>, indices |-> <<>>]

\* graph.node_indices(): every NodeIndex, in index order
NodeIndices(g) == [i \in 1..Len(g.nodes) |-> i - 1]

\* graph[idx]
Weight(g, idx) == g.nodes[idx + 1]

\* indices.contains_key(id)
ContainsKey(g, id) == id \in DOMAIN g.indices

\* Faulty variant of upsert_node: an existing node keeps all but its label.
UpsertNodeLabelOnly(g, id, nd) ==
    IF ContainsKey(g, id)
    THEN LET idx == g.indices[id] IN
         [gm |-> [g EXCEPT !.nodes[idx + 1].label = nd.label], idx |-> idx]
    ELSE LET idx == Len(g.nodes) IN
         [gm |-> [g EXCEPT !.nodes = Append(@, nd),
                           !.indices = (id :> idx) @@ @],
          idx |-> idx]

\* Faulty variant of upsert_node: always adds a node.
UpsertNodeReinsert(g, id, nd) ==
    LET idx == Len(g.nodes) IN
    [gm |-> [g EXCEPT !.nodes = Append(@, nd),
                      !.indices = (id :> idx) @@ @],
     idx |-> idx]

\* Faulty variant of upsert_node: an existing node is taken out and put back,
\* which drops the edges at it.
UpsertNodeDetaches(g, id, nd) ==
    IF ContainsKey(g, id)
    THEN LET idx == g.indices[id] IN
         [gm |-> [g EXCEPT !.nodes[idx + 1] = nd,
                           !.edges = SelectSeq(@, LAMBDA e : e[1] # idx /\ e[2] # idx)],
          idx |-> idx]
    ELSE LET idx == Len(g.nodes) IN
         [gm |-> [g EXCEPT !.nodes = Append(@, nd),
                           !.indices = (id :> idx) @@ @],
          idx |-> idx]

\* upsert_node: the store it leaves and the index it returns
upsert_node(g, id, nd) ==
    IF ContainsKey(g, id)
    THEN LET idx == g.indices[id] IN
         [gm |-> IF idx < Len(g.nodes)
                 THEN [g EXCEPT !.nodes[idx + 1] = nd]
                 ELSE g,
          idx |-> idx]
    ELSE LET idx == Len(g.nodes) IN
         [gm |-> [g EXCEPT !.nodes = Append(@, nd),
                           !.indices = (id :> idx) @@ @],
          idx |-> idx]

\* The placeholder node ensure_node_id creates
StubNode(id) == [id |-> id, label |-> <<>>, span |-> <<>>, tags |-> <<>>, ts |-> <<>>]

\* ensure_node_id: the store it leaves and the index it returns
ensure_node_id(g, id) ==
    IF ContainsKey(g, id)
    THEN [gm |-> g, idx |-> g.indices[id]]
    ELSE upsert_node(g, id, StubNode(id))

\* An add_edge that creates placeholder nodes for unknown ends
AddEdgeWithStubs(g, from, to) ==
    LET a == ensure_node_id(g, from)
        b == ensure_node_id(a.gm, to)
    IN  [b.gm EXCEPT !.edges = Append(@, <<a.idx, b.idx>>)]

\* add_edge: the store it leaves
add_edge(g, from, to) ==
    IF ContainsKey(g, from) /\ ContainsKey(g, to)
    THEN [g EXCEPT !.edges = Append(@, <<g.indices[from], g.indices[to]>>)]
    ELSE g

Incoming == "Incoming"
Outgoing == "Outgoing"

\* graph.neighbors_directed(n, dir): one entry per edge, newest edge first
RECURSIVE NeighborsFrom(_, _, _, _)
NeighborsFrom(g, n, dir, k) ==
    IF k = 0 THEN <<>>
    ELSE LET e == g.edges[k]
             here == IF dir = Outgoing THEN e[1] = n ELSE e[2] = n
             other == IF dir = Outgoing THEN e[2] ELSE e[1]
         IN  (IF here THEN <<other>> ELSE <<>>) \o NeighborsFrom(g, n, dir, k - 1)

neighbors_directed(g, n, dir) == NeighborsFrom(g, n, dir, Len(g.edges))

parents_of(g, idx) == neighbors_directed(g, idx, Incoming)

children_of(g, idx) == neighbors_directed(g, idx, Outgoing)

----
\* The loader: load_graph_from_jsonl

\* What a line of the input is, once read and parsed.  "raw" is text that is
\* no node or edge event (blank, or rejected by serde_json); "ioerr" is a line
\* the reader fails to deliver (an I/O error, bytes that are not UTF-8).
FullFields == [label |-> Some(<<"Q", "k">>), span |-> Some(<<"j">>),
               tags |-> Some(<< <<"c">>, <<"j">> >>), ts |-> Some(<<"t">>)]

BareFields == [label |-> None, span |-> None, tags |-> None, ts |-> None]

NodeLine(id, f) ==
    [kind |-> "node", id |-> id, label |-> f.label, span |-> f.span,
     tags |-> f.tags, ts |-> f.ts]

EdgeLine(from, to) == [kind |-> "edge", from |-> from, to |-> to]

RawLine(text) == [kind |-> "raw", text |-> text]

IoErrLine == [kind |-> "ioerr"]

NoLine == [kind |-> "none"]

LoadIds == {<<"q">>, <<"k">>}

NodeLines == {NodeLine(id, f) : id \in LoadIds, f \in {FullFields, BareFields}}

EdgeLines == {EdgeLine(from, to) : from \in LoadIds, to \in LoadIds}

RawLines == {RawLine(<<>>), RawLine(<<" ">>), RawLine(<<"{">>)}

\* line.trim().is_empty()
IsBlank(l) == l.kind = "raw" /\ Trim(l.text) = <<>>

\* The NodeData a node event builds (lines 269-275)
NodeDataOf(l) ==
    [id |-> l.id,
     label |-> UnwrapOr(l.label, <<>>),
     span |-> UnwrapOr(l.span, <<>>),
     tags |-> UnwrapOr(l.tags, <<>>),
     ts |-> UnwrapOr(l.ts, <<>>)]

\* Faulty variant of the loop body: an edge event creates its unknown ends.
LoadLineWithStubs(g, l) ==
    IF IsBlank(l) THEN [gm |-> g, ret |-> None]
    ELSE IF l.kind = "node"
    THEN LET r == upsert_node(g, l.id, NodeDataOf(l)) IN
         [gm |-> r.gm, ret |-> Some(r.idx)]
    ELSE IF l.kind = "edge"
    THEN [gm |-> AddEdgeWithStubs(g, l.from, l.to), ret |-> None]
    ELSE [gm |-> g, ret |-> None]

\* One pass of the loop body over a line the reader delivered:
\* the store it leaves and what upsert_node returned, if it was called.
LoadLine(g, l) ==
    IF IsBlank(l) THEN [gm |-> g, ret |-> None]
    ELSE IF l.kind = "node"
    THEN LET r == upsert_node(g, l.id, NodeDataOf(l)) IN
         [gm |-> r.gm, ret |-> Some(r.idx)]
    ELSE IF l.kind = "edge"
    THEN [gm |-> IF ContainsKey(g, l.from) /\ ContainsKey(g, l.to)
                 THEN add_edge(g, l.from, l.to)
                 ELSE g,
          ret |-> None]
    ELSE [gm |-> g, ret |-> None]

\* The whole loop over an input every line of which the reader delivers
RECURSIVE LoadAll(_, _)
LoadAll(g, ls) ==
    IF ls = <<>> THEN g ELSE LoadAll(LoadLine(g, Head(ls)).gm, Tail(ls))

NoClean == [nodes |-> <<>>, edges |-> <<>>, dropped |-> {}]

\* History: the ids of the nodes of the reference store
CleanIds(c) == {c.nodes[i].id : i \in 1..Len(c.nodes)}

\* History: the reference store after a line.  A node event replaces the node
\* of its id where it stands or is appended; an edge event whose two ends are
\* known is appended; every other line is dropped, and `dropped` remembers the
\* edge events dropped for an unknown end.
CleanAfter(c, l) ==
    IF l.kind = "node"
    THEN IF l.id \in CleanIds(c)
         THEN [c EXCEPT !.nodes = [i \in 1..Len(c.nodes) |->
                                   IF c.nodes[i].id = l.id THEN NodeDataOf(l)
                                   ELSE c.nodes[i]]]
         ELSE [c EXCEPT !.nodes = Append(@, NodeDataOf(l))]
    ELSE IF l.kind = "edge"
    THEN IF l.from \in CleanIds(c) /\ l.to \in CleanIds(c)
         THEN [c EXCEPT !.edges = Append(@, <<l.from, l.to>>)]
         ELSE [c EXCEPT !.dropped = @ \cup {<<l.from, l.to>>}]
    ELSE c

\* App::new: the initial order and selection
NewOrder(g) == NodeIndices(g)

NewSelected(g) == IF NewOrder(g) # <<>> THEN Some(0) ELSE None

\* History: the reference store of a whole input
RECURSIVE CleanAll(_, _)
CleanAll(c, ls) ==
    IF ls = <<>> THEN c ELSE CleanAll(CleanAfter(c, Head(ls)), Tail(ls))

NoWas == [filter_text |-> <<>>, selected |-> None]

NoDag == [fn |-> "none", center |-> 0, depth |-> 0,
          parents_layers |-> <<>>, children_layers |-> <<>>, positions |-> <<>>]

InitLoad ==
    /\ pc = "load"
    /\ gm = NewGraphModel
    /\ lineno = 0
    /\ line = NoLine
    /\ ret = None
    /\ seen = {}
    /\ clean = NoClean
    /\ order = <<>>
    /\ selected = None
    /\ filter_text = <<>>
    /\ mode = "Normal"
    /\ dag_view_mode = "Text"
    /\ key = None
    /\ was = NoWas
    /\ dag = NoDag

\* The reader delivers l and the loop body handles it.
Read(l) ==
    /\ pc = "load"
    /\ lineno < MaxLines
    /\ LET r == LoadLine(gm, l) IN
       /\ Len(r.gm.edges) <= MaxEdges
       /\ gm' = r.gm
       /\ ret' = IF r.ret = None THEN ret ELSE r.ret
    /\ lineno' = lineno + 1
    /\ line' = l
    /\ seen' = IF l.kind = "node" THEN seen \cup {l.id} ELSE seen
    /\ clean' = CleanAfter(clean, l)
    /\ UNCHANGED <<pc, appVars, dag>>

ReadRaw == \E l \in RawLines : Read(l)

ReadNode == \E l \in NodeLines : Read(l)

ReadEdge == \E l \in EdgeLines : Read(l)

\* `let line = line?;`: the reader's error leaves the function at once.
ReadError ==
    /\ pc = "load"
    /\ lineno < MaxLines
    /\ pc' = "failed"
    /\ lineno' = lineno + 1
    /\ line' = IoErrLine
    /\ UNCHANGED <<gm, ret, seen, clean, appVars, dag>>

\* The reader is exhausted: Ok(gm), and main builds the App from it.
ReadEof ==
    /\ pc = "load"
    /\ pc' = "run"
    /\ order' = NewOrder(gm)
    /\ selected' = NewSelected(gm)
    /\ filter_text' = <<>>
    /\ mode' = "Normal"
    /\ dag_view_mode' = "Text"
    /\ UNCHANGED <<loadVars, key, was, dag>>

NextLoad == ReadRaw \/ ReadNode \/ ReadEdge \/ ReadError \/ ReadEof

SpecLoad == InitLoad /\ [][NextLoad]_vars

----
\* The session: App and handle_key

\* Faulty variant of the haystack: the fields keep their case.
HayCaseSensitive(nd) ==
    nd.id \o <<" ">> \o nd.label \o <<" ">> \o nd.span \o <<" ">> \o JoinSpace(nd.tags)

\* The haystack apply_filter matches a node against (lines 203-210)
Hay(nd) ==
    ToLowercase(nd.id \o <<" ">> \o nd.label \o <<" ">> \o nd.span \o <<" ">>
                \o JoinSpace(nd.tags))

\* Faulty variant of the normalisation: the query is lower-cased, not trimmed.
FilterQueryNoTrim(query) == ToLowercase(query)

\* apply_filter, line 192: the normalised query
FilterQuery(query) == ToLowercase(Trim(query))

\* apply_filter, lines 194-214: the nodes the query keeps, in index order
FilterOrder(g, q) ==
    IF q = <<>>
    THEN NodeIndices(g)
    ELSE SelectSeq(NodeIndices(g), LAMBDA idx : Contains(Hay(Weight(g, idx)), q))

\* Faulty variant of the selection reset: the index is not clamped.
ResetSelectionNoClamp(sel, len) ==
    IF len = 0 THEN None ELSE Some(UnwrapOr(sel, 0))

\* Faulty variant of the selection reset: an index out of range is cleared.
ResetSelectionClearOutOfRange(sel, len) ==
    IF len = 0 \/ (sel # None /\ sel[1] >= len) THEN None ELSE Some(UnwrapOr(sel, 0))

\* Faulty variant of the selection reset: an absent selection stays absent.
ResetSelectionKeepNone(sel, len) ==
    IF len = 0 \/ sel = None THEN None ELSE Some(Min(sel[1], len - 1))

\* apply_filter, lines 216-222: the selection put back into range
ResetSelection(sel, len) ==
    IF len = 0 THEN None ELSE Some(Min(UnwrapOr(sel, 0), len - 1))

\* apply_filter as a function of the store, the selection and the query
apply_filter(g, sel, query) ==
    LET q == FilterQuery(query)
        ord == FilterOrder(g, q)
    IN  [filter_text |-> q, order |-> ord, selected |-> ResetSelection(sel, Len(ord))]

\* on_up / on_down: the selection they leave
on_up(sel, len) ==
    IF len = 0 THEN sel
    ELSE LET i == UnwrapOr(sel, 0) IN Some(IF i = 0 THEN len - 1 ELSE i - 1)

\* Faulty variant of on_down: it stops at the last row and never wraps.
OnDownNoWrap(sel, len) ==
    IF len = 0 THEN sel
    ELSE LET i == UnwrapOr(sel, 0) IN Some(IF i >= len - 1 THEN len - 1 ELSE i + 1)

on_down(sel, len) ==
    IF len = 0 THEN sel
    ELSE LET i == UnwrapOr(sel, 0) IN Some(IF i >= len - 1 THEN 0 ELSE i + 1)

\* Faulty variant of toggle_dag_view: it only ever switches to the canvas.
ToggleToCanvasOnly(v) == "Canvas"

\* toggle_dag_view (lines 242-247)
toggle_dag_view(v) == IF v = "Text" THEN "Canvas" ELSE "Text"

\* App::selected
SelectedNode(ord, sel) ==
    IF sel # None /\ sel[1] < Len(ord) THEN Some(ord[sel[1] + 1]) ELSE None

\* Key events: KeyCode, the character of KeyCode::Char, the CONTROL modifier
Key(code) == [code |-> code, ch |-> "", ctrl |-> FALSE]

CharKey(c) == [code |-> "Char", ch |-> c, ctrl |-> FALSE]

CtrlKey(c) == [code |-> "Char", ch |-> c, ctrl |-> TRUE]

TypedChars == {"q", "k", "j", "/", "c", "?", "Q", " "}

Keys ==
    {CharKey(c) : c \in TypedChars} \cup {CtrlKey("q")}
    \cup {Key(code) : code \in {"Up", "Down", "Tab", "Esc", "Enter", "Backspace", "F1"}}

IsChar(k, c) == k.code = "Char" /\ k.ch = c

\* Faulty variant of apply_filter: it filters the list shown, not the store.
ApplyFilterWithinVisible(query) ==
    LET q == FilterQuery(query)
        ord == IF q = <<>> THEN order
               ELSE SelectSeq(order, LAMBDA idx : Contains(Hay(Weight(gm, idx)), q))
    IN  /\ Len(q) <= MaxFilterLen
        /\ filter_text' = q
        /\ order' = ord
        /\ selected' = ResetSelection(selected, Len(ord))
        /\ gm' = gm

\* Faulty variant of apply_filter: it also drops from the store the edges of
\* the nodes the query hides.
ApplyFilterPrunesEdges(query) ==
    LET r == apply_filter(gm, selected, query)
        shown(n) == \E i \in 1..Len(r.order) : r.order[i] = n
    IN  /\ Len(r.filter_text) <= MaxFilterLen
        /\ filter_text' = r.filter_text
        /\ order' = r.order
        /\ selected' = r.selected
        /\ gm' = [gm EXCEPT !.edges = SelectSeq(gm.edges, LAMBDA e : shown(e[1]) /\ shown(e[2]))]

\* The effect of apply_filter(query) on the App: it reads self.gm and writes
\* filter_text, order and the selection
ApplyFilter(query) ==
    LET r == apply_filter(gm, selected, query) IN
    /\ Len(r.filter_text) <= MaxFilterLen
    /\ filter_text' = r.filter_text
    /\ order' = r.order
    /\ selected' = r.selected
    /\ gm' = gm

\* handle_key, Mode::Normal (lines 740-751)
KeyNormal(k) ==
    /\ pc = "run"
    /\ mode = "Normal"
    /\ key' = Some(k)
    /\ was' = [filter_text |-> filter_text, selected |-> selected]
    /\ IF IsChar(k, "q")
       THEN pc' = "quit"
            /\ UNCHANGED <<order, selected, filter_text, mode, dag_view_mode, gm>>
       ELSE IF k.code = "Up" \/ IsChar(k, "k")
       THEN selected' = on_up(selected, Len(order))
            /\ UNCHANGED <<pc, order, filter_text, mode, dag_view_mode, gm>>
       ELSE IF k.code = "Down" \/ IsChar(k, "j")
       THEN selected' = on_down(selected, Len(order))
            /\ UNCHANGED <<pc, order, filter_text, mode, dag_view_mode, gm>>
       ELSE IF IsChar(k, "/")
       THEN mode' = "Filter"
            /\ UNCHANGED <<pc, order, selected, filter_text, dag_view_mode, gm>>
       ELSE IF IsChar(k, "c")
       THEN ApplyFilter(<<>>)
            /\ UNCHANGED <<pc, mode, dag_view_mode>>
       ELSE IF IsChar(k, "?")
       THEN mode' = "HelpOverlay"
            /\ UNCHANGED <<pc, order, selected, filter_text, dag_view_mode, gm>>
       ELSE IF k.code = "Tab"
       THEN dag_view_mode' = toggle_dag_view(dag_view_mode)
            /\ UNCHANGED <<pc, order, selected, filter_text, mode, gm>>
       ELSE UNCHANGED <<pc, order, selected, filter_text, mode, dag_view_mode, gm>>
    /\ UNCHANGED <<lineno, line, ret, seen, clean, dag>>

\* handle_key, Mode::Filter (lines 752-768)
KeyFilter(k) ==
    /\ pc = "run"
    /\ mode = "Filter"
    /\ key' = Some(k)
    /\ was' = [filter_text |-> filter_text, selected |-> selected]
    /\ IF k.code = "Esc" \/ k.code = "Enter"
       THEN mode' = "Normal"
            /\ UNCHANGED <<order, selected, filter_text, dag_view_mode, gm>>
       ELSE IF k.code = "Backspace"
       THEN ApplyFilter(Pop(filter_text))
            /\ UNCHANGED <<mode, dag_view_mode>>
       ELSE IF k.code = "Char" /\ ~k.ctrl
       THEN ApplyFilter(Append(filter_text, k.ch))
            /\ UNCHANGED <<mode, dag_view_mode>>
       ELSE UNCHANGED <<order, selected, filter_text, mode, dag_view_mode, gm>>
    /\ UNCHANGED <<pc, lineno, line, ret, seen, clean, dag>>

\* Faulty variant of the help arm: 'q' ends the session from the overlay too.
KeyHelpQuits(k) ==
    /\ pc = "run"
    /\ mode = "HelpOverlay"
    /\ key' = Some(k)
    /\ was' = [filter_text |-> filter_text, selected |-> selected]
    /\ IF IsChar(k, "q")
       THEN pc' = "quit" /\ mode' = mode
       ELSE IF k.code = "Esc" \/ IsChar(k, "?")
       THEN pc' = pc /\ mode' = "Normal"
       ELSE pc' = pc /\ mode' = mode
    /\ UNCHANGED <<order, selected, filter_text, dag_view_mode, loadVars, dag>>

\* handle_key, Mode::HelpOverlay (lines 769-772)
KeyHelp(k) ==
    /\ pc = "run"
    /\ mode = "HelpOverlay"
    /\ key' = Some(k)
    /\ was' = [filter_text |-> filter_text, selected |-> selected]
    /\ IF k.code = "Esc" \/ IsChar(k, "?")
       THEN mode' = "Normal"
       ELSE mode' = mode
    /\ UNCHANGED <<pc, order, selected, filter_text, dag_view_mode, loadVars, dag>>

HandleKey == \E k \in Keys : KeyNormal(k) \/ KeyFilter(k) \/ KeyHelp(k)

\* The inputs a session starts from: the first lines of a sample log
ThirdFields == [label |-> Some(<<"k">>), span |-> None,
                tags |-> Some(<< <<"q">> >>), ts |-> None]

SampleLines ==
    << NodeLine(<<"q">>, FullFields),
       NodeLine(<<"k">>, BareFields),
       NodeLine(<<"c">>, ThirdFields),
       EdgeLine(<<"q">>, <<"k">>),
       RawLine(<<"{">>),
       NodeLine(<<"j">>, BareFields) >>

AppInputs == {SubSeq(SampleLines, 1, n) : n \in 0..Min(MaxAppLines, Len(SampleLines))}

InitApp ==
    /\ pc = "run"
    /\ \E ls \in AppInputs :
          /\ gm = LoadAll(NewGraphModel, ls)
          /\ lineno = Len(ls)
          /\ line = IF ls = <<>> THEN NoLine ELSE ls[Len(ls)]
          /\ clean = CleanAll(NoClean, ls)
    /\ ret = None
    /\ seen = DOMAIN gm.indices
    /\ order = NewOrder(gm)
    /\ selected = NewSelected(gm)
    /\ filter_text = <<>>
    /\ mode = "Normal"
    /\ dag_view_mode = "Text"
    /\ key = None
    /\ was = NoWas
    /\ dag = NoDag

NextApp == HandleKey

SpecApp == InitApp /\ [][NextApp]_vars

----
\* The neighbourhood layering: build_layered_dag_text and layout_nodes

\* Membership in a Vec: layer.contains(&p)
VecContains(v, x) == \E i \in 1..Len(v) : v[i] = x

\* Faulty variant of the inner loop: every neighbour is pushed.
RECURSIVE PushNewNoDedup(_, _)
PushNewNoDedup(layer, ns) ==
    IF ns = <<>> THEN layer ELSE PushNewNoDedup(Append(layer, Head(ns)), Tail(ns))

\* The inner loop over the neighbours ns of one frontier node:
\* `if !layer.contains(&p) { layer.push(p); next.push(p); }`
RECURSIVE PushNew(_, _)
PushNew(layer, ns) ==
    IF ns = <<>> THEN layer
    ELSE PushNew(IF VecContains(layer, Head(ns)) THEN layer ELSE Append(layer, Head(ns)),
                 Tail(ns))

\* The loop over the frontier: the layer one step builds.  `next` receives
\* exactly the pushes `layer` receives, so the next frontier is the layer.
RECURSIVE StepLayer(_, _, _, _)
StepLayer(g, frontier, dir, layer) ==
    IF frontier = <<>> THEN layer
    ELSE StepLayer(g, Tail(frontier), dir,
                   PushNew(layer, neighbors_directed(g, Head(frontier), dir)))

\* Faulty variant of the depth loop: an empty layer does not end it.
RECURSIVE BfsLayersNoBreak(_, _, _, _, _)
BfsLayersNoBreak(g, frontier, dir, steps, layers) ==
    IF steps = 0 THEN layers
    ELSE LET layer == StepLayer(g, frontier, dir, <<>>) IN
         BfsLayersNoBreak(g, layer, dir, steps - 1, Append(layers, layer))

\* `for _ in 0..depth`: the layers built in the steps that remain
RECURSIVE BfsLayers(_, _, _, _, _)
BfsLayers(g, frontier, dir, steps, layers) ==
    IF steps = 0 THEN layers
    ELSE LET layer == StepLayer(g, frontier, dir, <<>>) IN
         IF layer = <<>> THEN layers
         ELSE BfsLayers(g, layer, dir, steps - 1, Append(layers, layer))

\* Faulty variant of the parents loop: it follows outgoing edges.
TextParentsLayersAsChildren(g, center, depth) == BfsLayers(g, <<center>>, Outgoing, depth, <<>>)

\* build_layered_dag_text, lines 443-459 and 461-477
TextParentsLayers(g, center, depth) == BfsLayers(g, <<center>>, Incoming, depth, <<>>)

TextChildrenLayers(g, center, depth) == BfsLayers(g, <<center>>, Outgoing, depth, <<>>)

\* layout_nodes, lines 622-638 and 640-656
LayoutParentsLayers(g, center, depth) == BfsLayers(g, <<center>>, Incoming, depth, <<>>)

LayoutChildrenLayers(g, center, depth) == BfsLayers(g, <<center>>, Outgoing, depth, <<>>)

\* Canvas coordinates.  y is kept in half units (twice the f64 of the source),
\* so that layer.len() / 2.0 stays an integer; x is in whole units.
ParentsX == 10
ChildrenX == 70
CenterX == 50
StepX == 15
CenterY2 == 50

\* positions.insert for every node of one layer placed in column x
RECURSIVE PlaceLayer(_, _, _, _)
PlaceLayer(pos, layer, x, node_idx) ==
    IF node_idx = Len(layer) THEN pos
    ELSE PlaceLayer((layer[node_idx + 1] :> <<x, CenterY2 - Len(layer) + 2 * node_idx>>) @@ pos,
                    layer, x, node_idx + 1)

\* lines 659-665: parents_layers.iter().rev().enumerate()
RECURSIVE PlaceParents(_, _, _)
PlaceParents(pos, layers, layer_idx) ==
    IF layer_idx = Len(layers) THEN pos
    ELSE PlaceParents(PlaceLayer(pos, layers[Len(layers) - layer_idx],
                                 ParentsX + layer_idx * StepX, 0),
                      layers, layer_idx + 1)

\* lines 671-677: children_layers.iter().enumerate()
RECURSIVE PlaceChildren(_, _, _)
PlaceChildren(pos, layers, layer_idx) ==
    IF layer_idx = Len(layers) THEN pos
    ELSE PlaceChildren(PlaceLayer(pos, layers[layer_idx + 1],
                                  ChildrenX + layer_idx * StepX, 0),
                       layers, layer_idx + 1)

\* layout_nodes, lines 658-679: parents, then the centre, then children
Positions(parents, center, children) ==
    LET p == PlaceParents(<<>>, parents, 0)
        c == (center :> <<CenterX, CenterY2>>) @@ p
    IN  PlaceChildren(c, children, 0)

\* The inputs of a layering call: three nodes, then any edge lines among them
DagIds == {<<"q">>, <<"k">>, <<"c">>}

DagNodeLines ==
    << NodeLine(<<"q">>, BareFields), NodeLine(<<"k">>, BareFields),
       NodeLine(<<"c">>, BareFields) >>

DagEdgeLines == {EdgeLine(from, to) : from \in DagIds, to \in DagIds}

DagInputs ==
    {DagNodeLines \o es : es \in UNION {[1..n -> DagEdgeLines] : n \in 0..MaxDagEdges}}

InitDag ==
    /\ pc = "dag"
    /\ \E ls \in DagInputs :
          /\ gm = LoadAll(NewGraphModel, ls)
          /\ lineno = Len(ls)
          /\ line = ls[Len(ls)]
          /\ clean = CleanAll(NoClean, ls)
    /\ ret = None
    /\ seen = DOMAIN gm.indices
    /\ order = NewOrder(gm)
    /\ selected = NewSelected(gm)
    /\ filter_text = <<>>
    /\ mode = "Normal"
    /\ dag_view_mode = "Text"
    /\ key = None
    /\ was = NoWas
    /\ dag = NoDag

\* build_layered_dag_text(gm, center, depth): its layers
BuildLayeredDagText(center, depth) ==
    /\ pc = "dag"
    /\ dag' = [fn |-> "text", center |-> center, depth |-> depth,
               parents_layers |-> TextParentsLayers(gm, center, depth),
               children_layers |-> TextChildrenLayers(gm, center, depth),
               positions |-> <<>>]
    /\ pc' = "drawn"
    /\ UNCHANGED <<loadVars, appVars>>

\* layout_nodes(gm, center, depth): its layers and the positions it returns
LayoutNodes(center, depth) ==
    /\ pc = "dag"
    /\ LET parents == LayoutParentsLayers(gm, center, depth)
           children == LayoutChildrenLayers(gm, center, depth)
       IN  dag' = [fn |-> "layout", center |-> center, depth |-> depth,
                   parents_layers |-> parents,
                   children_layers |-> children,
                   positions |-> Positions(parents, center, children)]
    /\ pc' = "drawn"
    /\ UNCHANGED <<loadVars, appVars>>

DrawText ==
    \E center \in 0..(Len(gm.nodes) - 1), depth \in 0..MaxDepth :
        BuildLayeredDagText(center, depth)

DrawCanvas ==
    \E center \in 0..(Len(gm.nodes) - 1), depth \in 0..MaxDepth :
        LayoutNodes(center, depth)

NextDag == DrawText \/ DrawCanvas

SpecDag == InitDag /\ [][NextDag]_vars

----
\* Properties

\* Number of entries of a sequence equal to x
Count(seq, x) == Cardinality({i \in 1..Len(seq) : seq[i] = x})

\* The nodes that stand in some layer of a list of layers
InLayers(layers) == UNION {{layers[i][j] : j \in 1..Len(layers[i])} : i \in 1..Len(layers)}

\* The edges of the store, each as the pair of the ids of its two ends
EdgesById(g) ==
    [i \in 1..Len(g.edges) |-> <<Weight(g, g.edges[i][1]).id, Weight(g, g.edges[i][2]).id>>]

\* The nodes one or more edges lead to from the nodes of S
RECURSIVE ReachableFrom(_, _, _)
ReachableFrom(g, S, found) ==
    LET succ == {g.edges[i][2] : i \in {j \in 1..Len(g.edges) : g.edges[j][1] \in S}}
        new == succ \ found
    IN  IF new = {} THEN found ELSE ReachableFrom(g, new, found \cup new)

\* A directed cycle passes through n (a self-loop is one)
OnCycle(g, n) == n \in ReachableFrom(g, {n}, {})

\* C1: after App::new and after every key event, in every mode and on every
\* graph, the selection is absent or an index below the length of order.
C1_SelectionInRange ==
    pc \in {"run", "quit"} =>
        (selected = None \/ (selected[1] >= 0 /\ selected[1] < Len(order)))

\* C1 witness: a filter edit has shrunk a non-empty list to nothing while a
\* later node was selected.
C1_Witness ==
    /\ pc = "run"
    /\ mode = "Filter"
    /\ key # None /\ key[1].code = "Char"
    /\ Len(gm.nodes) >= 2
    /\ was.selected # None /\ was.selected[1] >= 1
    /\ order = <<>>
    /\ selected = None

\* C2 (as claimed): in the layers a layering call returns, no node stands in
\* two ancestor layers and no node stands in two descendant layers.
C2_OneLayerPerDirection ==
    pc = "drawn" =>
        \A layers \in {dag.parents_layers, dag.children_layers} :
            \A i, j \in 1..Len(layers) :
                i < j => \A a \in 1..Len(layers[i]), b \in 1..Len(layers[j]) :
                             layers[i][a] # layers[j][b]

\* C3: in the layers a layering call returns, no node stands twice in one
\* ancestor layer or twice in one descendant layer, parallel edges or not.
C3_NoDuplicateInLayer ==
    pc = "drawn" =>
        \A layers \in {dag.parents_layers, dag.children_layers} :
            \A i \in 1..Len(layers) :
                \A a, b \in 1..Len(layers[i]) :
                    a # b => layers[i][a] # layers[i][b]

\* C3 witness: the focal node has two parallel edges to one child and an edge
\* to another, and the first descendant layer holds the two children.
C3_Witness ==
    /\ pc = "drawn"
    /\ \E i, j \in 1..Len(gm.edges) :
          i # j /\ gm.edges[i] = gm.edges[j] /\ gm.edges[i][1] = dag.center
    /\ Len(dag.children_layers) >= 1
    /\ Len(dag.children_layers[1]) = 2

\* C4: a node that stands in an ancestor layer and in a descendant layer of
\* the same focal node lies on a directed cycle of the graph.
C4_BothSidesOnlyOnCycle ==
    pc = "drawn" =>
        \A n \in InLayers(dag.parents_layers) \cap InLayers(dag.children_layers) :
            OnCycle(gm, n)

\* C4 witness: a node other than the focal node stands on both sides.
C4_Witness ==
    /\ pc = "drawn"
    /\ \E n \in InLayers(dag.parents_layers) \cap InLayers(dag.children_layers) :
          n # dag.center

\* C5: upsert_node under an id already in the store overwrites label, span,
\* tags and timestamp of that node, returns the index the id had, and leaves
\* the index map, the number of nodes and every other node as they were.
C5_UpsertOverwritesInPlace ==
    [][(pc = "load" /\ lineno' = lineno + 1 /\ line'.kind = "node"
        /\ line'.id \in DOMAIN gm.indices)
       => LET idx == gm.indices[line'.id] IN
          /\ ret' = Some(idx)
          /\ gm'.indices = gm.indices
          /\ Len(gm'.nodes) = Len(gm.nodes)
          /\ gm'.nodes[idx + 1].id = line'.id
          /\ gm'.nodes[idx + 1].label = UnwrapOr(line'.label, <<>>)
          /\ gm'.nodes[idx + 1].span = UnwrapOr(line'.span, <<>>)
          /\ gm'.nodes[idx + 1].tags = UnwrapOr(line'.tags, <<>>)
          /\ gm'.nodes[idx + 1].ts = UnwrapOr(line'.ts, <<>>)
          /\ \A j \in 1..Len(gm.nodes) : j # idx + 1 => gm'.nodes[j] = gm.nodes[j]]_vars

\* C5 witness: with two nodes stored, a node event has just overwritten the
\* first one with empty fields.
C5_Witness ==
    /\ line.kind = "node"
    /\ Len(gm.nodes) = 2
    /\ ret = Some(0)
    /\ gm.nodes[1].label = <<>>
    /\ gm.nodes[2].label # <<>>
    /\ lineno >= 3

\* C6: the store holds one node per id seen in a node event: as many nodes as
\* ids, and the index map sends each id to a node of its own carrying that id.
C6_OneNodePerId ==
    /\ Len(gm.nodes) = Cardinality(seen)
    /\ DOMAIN gm.indices = seen
    /\ \A id \in seen :
          /\ gm.indices[id] \in 0..(Len(gm.nodes) - 1)
          /\ Weight(gm, gm.indices[id]).id = id
    /\ \A id1, id2 \in seen : gm.indices[id1] = gm.indices[id2] => id1 = id2

\* C6 witness: two ids are stored, an edge too, and the last line was a node
\* event for the id stored first.
C6_Witness ==
    /\ pc = "load"
    /\ Cardinality(seen) = 2
    /\ Len(gm.edges) >= 1
    /\ line.kind = "node"
    /\ ret = Some(0)

\* C7: parents_of and children_of show an edge between two ids exactly as many
\* times as an edge event for that pair was handled while both ids were in the
\* store; an edge event handled earlier than that never shows.
C7_EdgesExactlyAsAccepted ==
    \A from, to \in seen :
        /\ Count(children_of(gm, gm.indices[from]), gm.indices[to])
              = Count(clean.edges, <<from, to>>)
        /\ Count(parents_of(gm, gm.indices[to]), gm.indices[from])
              = Count(clean.edges, <<from, to>>)

\* C7 witness: an edge event was dropped for an end that a later node event
\* inserted, the pair is still not linked, and a self-loop was added twice.
C7_Witness ==
    /\ \E e \in clean.dropped :
          /\ e[1] \in seen /\ e[2] \in seen
          /\ Count(clean.edges, e) = 0
          /\ Count(children_of(gm, gm.indices[e[1]]), gm.indices[e[2]]) = 0
    /\ \E id \in seen : Count(children_of(gm, gm.indices[id]), gm.indices[id]) = 2

\* The store is the one the good lines alone describe
StoreIsClean ==
    /\ gm.nodes = clean.nodes
    /\ EdgesById(gm) = clean.edges

\* C8 (as claimed): whatever the lines, the load does not abort and the store
\* is the one left by the node events and the edge events with two known ends.
C8_BadLineNeverAborts ==
    /\ pc # "failed"
    /\ StoreIsClean

\* C9: clear-filter in Normal mode empties filter_text and makes order the
\* full list of node indices in index order, whatever filter edits came before.
C9_ClearRestoresAll ==
    [][(pc = "run" /\ mode = "Normal" /\ key' = Some(CharKey("c")))
       => (/\ filter_text' = <<>>
           /\ order' = [i \in 1..Len(gm.nodes) |-> i - 1])]_vars

\* C9 witness: clear-filter has just been handled while a filter that hid
\* some nodes was set.
C9_Witness ==
    /\ pc = "run"
    /\ mode = "Normal"
    /\ key = Some(CharKey("c"))
    /\ was.filter_text # <<>>
    /\ Len(FilterOrder(gm, was.filter_text)) < Len(gm.nodes)
    /\ filter_text = <<>>
    /\ Len(order) = Len(gm.nodes)

\* The raw queries apply_filter is tried on: empty, blank, upper case, padded,
\* matching some nodes, every node or none
Queries ==
    { <<>>, <<" ">>, <<"Q">>, <<"j">>, <<"/">>, <<"q", "k">>, <<" ", "K", " ">>,
      <<"c", " ", "j">> }

\* C10: in every state and for every query, apply_filter applied a second
\* time with the same query leaves order, filter_text and selection as the
\* first application left them.
C10_ApplyFilterIdempotent ==
    pc = "run" =>
        \A query \in Queries :
            LET once == apply_filter(gm, selected, query)
                twice == apply_filter(gm, once.selected, query)
            IN  twice = once

\* C10 witness: a filter edit has just cut the list short of the selection, so
\* that apply_filter moved the selection onto the last node left.
C10_Witness ==
    /\ pc = "run"
    /\ mode = "Filter"
    /\ key # None /\ key[1].code = "Char"
    /\ was.selected # None /\ selected # None
    /\ was.selected[1] > selected[1]
    /\ Len(order) >= 1
    /\ selected[1] = Len(order) - 1

\* A filter edit: a character typed without CONTROL, or Backspace
IsTyped(k) == k.code = "Char" /\ ~k.ctrl

\* C11 (as claimed): in Filter mode a character typed without CONTROL leaves
\* filter_text as it was with that character appended, and Backspace leaves it
\* as it was without its last character.
C11_EditsAppendAndPop ==
    [][(pc = "run" /\ mode = "Filter" /\ key' # None)
       => (/\ IsTyped(key'[1]) => filter_text' = Append(filter_text, key'[1].ch)
           /\ key'[1].code = "Backspace" => filter_text' = Pop(filter_text))]_vars

\* C12 (as claimed): after a filter edit the selection designates the node it
\* designated before if order still holds that node; otherwise it is the last
\* index of order, or absent when order is empty.
C12_SelectionTracksNode ==
    [][(pc = "run" /\ mode = "Filter" /\ key' # None
        /\ (IsTyped(key'[1]) \/ key'[1].code = "Backspace")
        /\ SelectedNode(order, selected) # None)
       => IF VecContains(order', SelectedNode(order, selected)[1])
          THEN SelectedNode(order', selected') = SelectedNode(order, selected)
          ELSE selected' = IF order' = <<>> THEN None ELSE Some(Len(order') - 1)]_vars

\* n presses of move-down, starting from the selection sel
RECURSIVE DownTimes(_, _, _)
DownTimes(sel, len, n) ==
    IF n = 0 THEN sel ELSE DownTimes(on_down(sel, len), len, n - 1)

IsDownKey(k) == k.code = "Down" \/ IsChar(k, "j")

IsUpKey(k) == k.code = "Up" \/ IsChar(k, "k")

\* C13: in Normal mode, with n rows listed and row i selected, move-down
\* selects row (i+1) mod n and move-up row (i-1) mod n; move-up undoes
\* move-down and n move-downs come back to i; filter_text, order, mode and
\* dag_view_mode keep their values, and on an empty list the selection does too.
C13_UpDownWrap ==
    [][(pc = "run" /\ mode = "Normal" /\ key' # None
        /\ (IsDownKey(key'[1]) \/ IsUpKey(key'[1])))
       => LET n == Len(order) IN
          /\ UNCHANGED <<filter_text, order, mode, dag_view_mode>>
          /\ n = 0 => selected' = selected
          /\ (n > 0 /\ selected # None) =>
               LET i == selected[1] IN
               /\ IsDownKey(key'[1]) => selected' = Some((i + 1) % n)
               /\ IsUpKey(key'[1]) => selected' = Some((i + n - 1) % n)
               /\ on_up(on_down(selected, n), n) = selected
               /\ on_down(on_up(selected, n), n) = selected
               /\ DownTimes(selected, n, n) = selected]_vars

\* C13 witness: move-down on the last of three rows has wrapped to the first.
C13_Witness ==
    /\ pc = "run" /\ mode = "Normal" /\ key = Some(Key("Down"))
    /\ Len(order) = 3 /\ was.selected = Some(2) /\ selected = Some(0)

\* C14: Tab in Normal mode switches dag_view_mode to the other of Text and
\* Canvas and leaves the selection, filter_text, order, mode and the store as
\* they were; a second Tab would bring dag_view_mode back.
C14_TabTogglesViewOnly ==
    [][(pc = "run" /\ mode = "Normal" /\ key' = Some(Key("Tab")))
       => /\ dag_view_mode' \in {"Text", "Canvas"} \ {dag_view_mode}
          /\ toggle_dag_view(dag_view_mode') = dag_view_mode
          /\ UNCHANGED <<selected, filter_text, order, mode, gm, pc>>]_vars

\* C14 witness: a Tab has brought the view back to Text, the view the session
\* starts in, while a filter and a selection are in place.
C14_Witness ==
    /\ pc = "run" /\ mode = "Normal" /\ key = Some(Key("Tab"))
    /\ dag_view_mode = "Text" /\ filter_text # <<>> /\ selected = Some(1)

\* C17: no key event, in any mode, changes the store: its nodes and their
\* fields, its edges and its id -> index map are after every handle_key call
\* what they were before it.
C17_KeysLeaveStoreAlone ==
    [][(pc = "run" /\ key' # None)
       => /\ gm'.nodes = gm.nodes
          /\ gm'.edges = gm.edges
          /\ gm'.indices = gm.indices]_vars

\* C17 witness: with an edge in the store, a filter has hidden one end of it
\* and the help overlay has been opened afterwards.
C17_Witness ==
    /\ pc = "run" /\ mode = "HelpOverlay" /\ key = Some(CharKey("?"))
    /\ gm.edges # <<>> /\ filter_text # <<>> /\ Len(order) < Len(gm.nodes)
    /\ gm = LoadAll(NewGraphModel, SubSeq(SampleLines, 1, lineno))

\* A field, lower-cased, has q as a substring
FieldHas(f, q) == Contains(ToLowercase(f), q)

\* The node's id, label, span or one of its tags has q as a substring
NodeMatches(nd, q) ==
    \/ FieldHas(nd.id, q) \/ FieldHas(nd.label, q) \/ FieldHas(nd.span, q)
    \/ \E t \in 1..Len(nd.tags) : FieldHas(nd.tags[t], q)

\* C19: after App::new and after every key event, order lists, in index
\* order and once each, exactly the nodes of the store whose lower-cased id,
\* label, span or tags contain filter_text (every node when it is empty).
C19_OrderIsFilterOfStore ==
    pc \in {"run", "quit"} =>
        /\ \A i, j \in 1..Len(order) : i < j => order[i] < order[j]
        /\ {order[i] : i \in 1..Len(order)}
             = {n \in 0..(Len(gm.nodes) - 1) :
                  filter_text = <<>> \/ NodeMatches(Weight(gm, n), filter_text)}

\* C19 witness: the text "qk" lists only the node labelled "Qk" out of three.
C19_Witness ==
    /\ pc = "run" /\ key # None /\ filter_text = <<"q", "k">>
    /\ Len(gm.nodes) >= 3 /\ order = <<0>>

\* C15 (as claimed): in the positions layout_nodes returns, the focal node
\* stands at the centre column, at the vertical midpoint.
C15_FocalAtCentre ==
    (pc = "drawn" /\ dag.fn = "layout") =>
        /\ dag.center \in DOMAIN dag.positions
        /\ dag.positions[dag.center] = <<CenterX, CenterY2>>

\* The places a node takes in a list of layers
PlacesIn(layers, n) ==
    {<<i, j>> \in (1..Len(layers)) \X (0..Len(gm.nodes)) :
        j >= 1 /\ j <= Len(layers[i]) /\ layers[i][j] = n}

\* The node is placed by one layer only, and is not the focal node, so that
\* its position is the one that layer gave it
PlacedOnce(n) ==
    /\ n # dag.center
    /\ Cardinality(PlacesIn(dag.parents_layers, n))
         + Cardinality(PlacesIn(dag.children_layers, n)) = 1

RECURSIVE SumSeq(_)
SumSeq(s) == IF s = <<>> THEN 0 ELSE Head(s) + SumSeq(Tail(s))

\* C16 (as claimed): a layer of k nodes takes k slots one unit apart (2 half
\* units) whose mean y is the vertical midpoint, the y of the centre.
C16_LayerCentredOnMidpoint ==
    (pc = "drawn" /\ dag.fn = "layout") =>
        \A layers \in {dag.parents_layers, dag.children_layers} :
            \A i \in 1..Len(layers) :
                LET layer == layers[i]
                    k == Len(layer)
                    y2 == [j \in 1..k |-> dag.positions[layer[j]][2]]
                IN  (\A j \in 1..k : PlacedOnce(layer[j])) =>
                        /\ \A j \in 1..(k - 1) : y2[j + 1] = y2[j] + 2
                        /\ SumSeq(y2) = k * CenterY2

\* Direct predecessors and successors of a node, read off the edge list
PredSet(g, n) == {g.edges[e][1] : e \in {x \in 1..Len(g.edges) : g.edges[x][2] = n}}

SuccSet(g, n) == {g.edges[e][2] : e \in {x \in 1..Len(g.edges) : g.edges[x][1] = n}}

SetOf(seq) == {seq[i] : i \in 1..Len(seq)}

\* The layers are a bounded breadth-first layering from the focal node over
\* the neighbour relation Nb
IsLayering(layers, Nb(_)) ==
    /\ Len(layers) <= dag.depth
    /\ \A d \in 1..Len(layers) : layers[d] # <<>>
    /\ Len(layers) >= 1 => SetOf(layers[1]) = Nb(dag.center)
    /\ \A d \in 1..(Len(layers) - 1) :
          \A n \in SetOf(layers[d + 1]) : \E m \in SetOf(layers[d]) : n \in Nb(m)
    /\ Len(layers) < dag.depth =>
          LET last == IF layers = <<>> THEN {dag.center}
                      ELSE SetOf(layers[Len(layers)])
          IN  \A m \in last : Nb(m) = {}

\* C18: on every graph, cyclic or not, a layering call ends and returns per
\* direction at most depth layers, none empty; layer 1 is the set of direct
\* neighbours of the focal node, every node of layer d+1 is a direct neighbour
\* of a node of layer d, and fewer than depth layers are returned only when
\* the last one has no neighbour to go on with.
C18_BoundedLayering ==
    pc = "drawn" =>
        /\ IsLayering(dag.parents_layers, LAMBDA n : PredSet(gm, n))
        /\ IsLayering(dag.children_layers, LAMBDA n : SuccSet(gm, n))

\* C18 witness: on a graph with a cycle, the descendant side runs to the
\* depth bound of 3 and the ancestor side has stopped after one layer.
C18_Witness ==
    /\ pc = "drawn" /\ dag.depth = 3
    /\ Len(dag.children_layers) = 3 /\ Len(dag.parents_layers) = 1
    /\ \E n \in 0..(Len(gm.nodes) - 1) : OnCycle(gm, n)

\* C20 (as claimed): parents_of and children_of list each direct predecessor
\* and each direct successor of a node once, parallel edges or not, and no
\* other node; a second call returns the same sequence.
C20_NeighboursListedOnce ==
    \A id \in seen, other \in seen :
        LET n == gm.indices[id]
            m == gm.indices[other]
        IN  /\ Count(parents_of(gm, n), m) = IF m \in PredSet(gm, n) THEN 1 ELSE 0
            /\ Count(children_of(gm, n), m) = IF m \in SuccSet(gm, n) THEN 1 ELSE 0
            /\ parents_of(gm, n) = parents_of(gm, n)
            /\ children_of(gm, n) = children_of(gm, n)

\* C21: after App::new and after every key event the selection is absent
\* exactly when order is empty; after a key event that found no selection and
\* left a non-empty order, the selection is index 0.
C21_SelectionIffNonEmpty ==
    pc \in {"run", "quit"} =>
        /\ selected = None <=> order = <<>>
        /\ (key # None /\ was.selected = None /\ order # <<>>) => selected = Some(0)

\* C21 witness: a filter that matched nothing was shortened by Backspace and
\* two or more rows are listed again, the first one selected.
C21_Witness ==
    /\ pc = "run" /\ mode = "Filter" /\ key = Some(Key("Backspace"))
    /\ was.filter_text # <<>> /\ was.selected = None
    /\ Len(order) >= 2 /\ selected = Some(0)

\* C22: after every key event filter_text holds no space, so none at either
\* end, and no upper-case letter; a typed space leaves it as it was.
C22_FilterTextNormalised ==
    pc \in {"run", "quit"} =>
        /\ \A i \in 1..Len(filter_text) :
              /\ ~IsWhitespace(filter_text[i])
              /\ filter_text[i] \notin {"Q", "K"}
        /\ key = Some(CharKey(" ")) => filter_text = was.filter_text

\* C22 witness: a space has been typed in Filter mode after a non-empty text.
C22_Witness ==
    /\ pc = "run" /\ mode = "Filter" /\ key = Some(CharKey(" "))
    /\ filter_text # <<>> /\ filter_text = was.filter_text

\* C23: the session ends only on a 'q' key event in Normal mode, and every
\* such event ends it; 'q' without CONTROL in Filter mode is appended to
\* filter_text and 'q' in HelpOverlay mode changes nothing; Esc leaves the
\* session running in Normal mode whatever the mode was, so that Esc then 'q'
\* ends the session from every state in which it runs.
C23_QuitOnlyFromNormal ==
    [][(pc = "run" /\ key' # None)
       => LET k == key'[1] IN
          /\ pc' \in {"run", "quit"}
          /\ pc' = "quit" <=> (mode = "Normal" /\ IsChar(k, "q"))
          /\ (mode = "Filter" /\ k = CharKey("q"))
                => filter_text' = Append(filter_text, "q")
          /\ (mode = "HelpOverlay" /\ IsChar(k, "q"))
                => UNCHANGED <<mode, order, selected, filter_text, dag_view_mode, gm>>
          /\ k.code = "Esc" => (pc' = "run" /\ mode' = "Normal")]_vars

\* C23 witness: the session has ended on 'q' with a 'q' in the filter text: the
\* 'q' typed in Filter mode was appended, and only the one typed after leaving
\* that mode ended the session.
C23_Witness ==
    /\ pc = "quit" /\ mode = "Normal" /\ key = Some(CharKey("q"))
    /\ \E i \in 1..Len(filter_text) : filter_text[i] = "q"

\* C24: a node event for an id already in the store leaves every edge where
\* it was, those at the node included, so the node keeps its parents and its
\* children; every other node and the index map are as before.
C24_UpsertKeepsEdges ==
    [][(pc = "load" /\ lineno' = lineno + 1 /\ line'.kind = "node"
        /\ line'.id \in DOMAIN gm.indices)
       => LET idx == gm.indices[line'.id] IN
          /\ gm'.edges = gm.edges
          /\ gm'.indices = gm.indices
          /\ \A n \in 0..(Len(gm.nodes) - 1) :
                /\ parents_of(gm', n) = parents_of(gm, n)
                /\ children_of(gm', n) = children_of(gm, n)
                /\ n # idx => Weight(gm', n) = Weight(gm, n)]_vars

\* C24 witness: the node stored first has a self-loop and an edge to the
\* other node, and the last line was a second node event for it.
C24_Witness ==
    /\ pc = "load" /\ line.kind = "node" /\ ret = Some(0)
    /\ Len(gm.nodes) = 2 /\ line.id = gm.nodes[1].id
    /\ <<0, 0>> \in SetOf(gm.edges) /\ <<0, 1>> \in SetOf(gm.edges)

====
